---- MODULE Spec2Model ----
(***************************************************************************)
(* Model of MujocoManip/environments/base.py (MujocoEnv: the step loop and *)
(* the episode life cycle) and of MujocoManip/models/mujoco_object.py (the *)
(* generated primitive objects and their randomised constructors).         *)
(*                                                                         *)
(* Times are Python floats.  They are modelled as binary floating-point    *)
(* numbers scaled down: a value is a whole number of ticks (one simulated  *)
(* second is TicksPerSecond ticks) with a significand of MantissaBits bits *)
(* instead of 53, and every addition rounds to the nearest such value,     *)
(* ties to even, as IEEE-754 does.  The control frequencies are those      *)
(* whose period 1/control_freq is a whole number of ticks.                 *)
(***************************************************************************)
EXTENDS Integers, Sequences, FiniteSets, TLC

(* ---------------- bounds of the model ---------------- *)
TicksPerSecond == 3
MaxTimestep == 2
MaxHorizon == 2
MaxSub == 2
MantissaBits == 3

(* successful steps allowed in one episode of the model *)
MaxT == MaxHorizon + 1

Freqs == {f \in 1..TicksPerSecond : TicksPerSecond % f = 0}
BadFreqs == {0}
Timesteps == 1..MaxTimestep
BadTimesteps == {0}
Horizons == 0..MaxHorizon
Actions == {1, 2}

Max(a, b) == IF a >= b THEN a ELSE b

VARIABLES
    control_freq, horizon, ignore_done,  \* constructor arguments kept on the object
    mjpy_model,           \* compiled model: where it came from and its opt.timestep
    sim,                  \* the MjSim: its model, sub-steps executed, data.ctrl
    sim_state_initial,    \* sim.get_state() taken when the sim was built
    cur_time, model_timestep, control_timestep,
    t, done,
    pc, end_time, nsub,   \* inside step(): "idle" or "loop"; the locals of the running call (0 when idle)
    entry_time,           \* history: cur_time when the running step was called (0 when idle)
    ret,                  \* outcome of the last call
    t0                    \* history: value of t when cur_time was last zeroed

envvars == <<control_freq, horizon, ignore_done, mjpy_model,
             sim, sim_state_initial, cur_time, model_timestep, control_timestep,
             t, done, pc, end_time, nsub, entry_time, ret, t0>>

(* ---------------- helpers translated from the code ---------------- *)

\* 1 / control_freq, in ticks
ControlTimestep(f) == TicksPerSecond \div f

\* the gap between x and the next float above it: 1 tick while x fits the
\* significand, doubling with every further binary digit of x
RECURSIVE Ulp(_)
Ulp(x) == IF x < 2^MantissaBits THEN 1 ELSE 2 * Ulp(x \div 2)

\* the float nearest to the real number x >= 0, ties to the even significand
Round(x) ==
    LET u == Ulp(x)
        lo == (x \div u) * u
    IN  IF 2 * (x - lo) < u THEN lo
        ELSE IF 2 * (x - lo) > u THEN lo + u
        ELSE IF (lo \div u) % 2 = 0 THEN lo ELSE lo + u

\* a + b on floats: "self.cur_time + self.control_timestep",
\* "self.cur_time += self.model_timestep"
FloatAdd(a, b) == Round(a + b)

\* MjSim(mjpy_model): a fresh simulation, nothing stepped, controls zero
MjSim(m) == [src |-> m.src, timestep |-> m.timestep, nstep |-> 0, ctrl |-> 0]

\* sim.get_state()
get_state(s) == [src |-> s.src, timestep |-> s.timestep, nstep |-> s.nstep]

\* what the caller of the last call saw: the call and its argument, the exception
\* it raised ("none": it returned, "running": it has not returned yet), and for
\* step the reward, the returned done and the outcome of _check_terminated
Result(op, arg, raised, d, term) ==
    [op |-> op, arg |-> arg, raised |-> raised, done |-> d, reward |-> 0, term |-> term]

\* initialize_time(control_freq) on a sim whose model timestep is m;
\* cf, ct are the object's control_freq and control_timestep before the call
initialize_time(f, m, cf, ct) ==
    IF m <= 0
    THEN [raised |-> "XMLError", control_freq |-> cf, control_timestep |-> ct]
    ELSE IF f <= 0
    THEN [raised |-> "SimulationError", control_freq |-> f, control_timestep |-> ct]
    ELSE [raised |-> "none", control_freq |-> f, control_timestep |-> ControlTimestep(f)]

\* step(): "if not self.done"
StepAccepted_unguarded(d) == TRUE

StepAccepted(d) == ~d

\* step(): "while self.cur_time < end_time"
LoopCond(cur, end) == cur < end

\* _post_action: self.done = (terminated or t >= horizon) and (not ignore_done)
PostActionDone_no_ignore(term, tt, h, ign) == term \/ tt >= h

PostActionDone_past_horizon(term, tt, h, ign) == (term \/ tt > h) /\ ~ign

PostActionDone(term, tt, h, ign) == (term \/ tt >= h) /\ ~ign

\* the tail of _reset_internal and of reset_from_xml_string:
\* self.cur_time = 0; self.t = 0; self.done = False
EpisodeStart_keeps_done(d) == [cur_time |-> 0, t |-> 0, done |-> d]

EpisodeStart(d) == [cur_time |-> 0, t |-> 0, done |-> FALSE]

(* ---------------- operations ---------------- *)

\* the part shared by _reset_internal and reset_from_xml_string once
\* self.mjpy_model holds a model mm: build the sim, initialise the time,
\* record the initial state, restart the episode (the viewer is not modelled)
Rebuild(op, mm) ==
    LET it == initialize_time(control_freq, mm.timestep, control_freq, control_timestep)
    IN  /\ mjpy_model' = mm
        /\ sim' = MjSim(mm)
        /\ cur_time' = (IF it.raised = "none" THEN EpisodeStart(done).cur_time ELSE 0)
        /\ t0' = IF it.raised = "none" THEN 0 ELSE t
        /\ model_timestep' = mm.timestep
        /\ control_freq' = it.control_freq
        /\ control_timestep' = it.control_timestep
        /\ IF it.raised = "none"
           THEN /\ sim_state_initial' = get_state(MjSim(mm))
                /\ t' = EpisodeStart(done).t
                /\ done' = EpisodeStart(done).done
           ELSE UNCHANGED <<sim_state_initial, t, done>>
        /\ ret' = Result(op, mm.timestep, it.raised, FALSE, FALSE)
        /\ UNCHANGED <<horizon, ignore_done, pc, end_time, nsub, entry_time>>

\* reset(): close, _reset_internal (which reloads the model: its timestep is m),
\* _get_observation
reset(m) ==
    /\ pc = "idle"
    /\ Rebuild("reset", [src |-> "load_model", timestep |-> m])

\* reset_from_xml_string(xml_string): xml_string compiles to a model of timestep m
reset_from_xml_string(m) ==
    /\ pc = "idle"
    /\ Rebuild("reset_from_xml_string", [src |-> "xml", timestep |-> m])

\* a direct call of the public method initialize_time(f)
InitializeTime(f) ==
    LET it == initialize_time(f, sim.timestep, control_freq, control_timestep)
    IN  /\ pc = "idle"
        /\ cur_time' = 0
        /\ t0' = t
        /\ model_timestep' = sim.timestep
        /\ control_freq' = it.control_freq
        /\ control_timestep' = it.control_timestep
        /\ ret' = Result("initialize_time", f, it.raised, FALSE, FALSE)
        /\ UNCHANGED <<horizon, ignore_done, mjpy_model, sim,
                       sim_state_initial, t, done, pc, end_time, nsub, entry_time>>

\* step(action), up to the head of the while loop
step(a) ==
    /\ pc = "idle"
    /\ IF StepAccepted(done)
       THEN /\ t < MaxT
            /\ t' = t + 1
            /\ sim' = [sim EXCEPT !.ctrl = a]
            /\ end_time' = FloatAdd(cur_time, control_timestep)
            /\ nsub' = 0
            /\ entry_time' = cur_time
            /\ pc' = "loop"
            /\ ret' = Result("step", a, "running", FALSE, FALSE)
       ELSE /\ ret' = Result("step", a, "ValueError", FALSE, FALSE)
            /\ UNCHANGED <<t, sim, end_time, nsub, entry_time, pc>>
    /\ UNCHANGED <<control_freq, horizon, ignore_done, mjpy_model,
                   sim_state_initial, cur_time, model_timestep, control_timestep, done, t0>>

\* one iteration of the while loop: sim.step(); cur_time += model_timestep
\* (a loop in which cur_time no longer advances never ends: the model follows
\* MaxSub of its iterations)
SubStep ==
    /\ pc = "loop"
    /\ LoopCond(cur_time, end_time)
    /\ FloatAdd(cur_time, model_timestep) > cur_time \/ nsub < MaxSub
    /\ sim' = [sim EXCEPT !.nstep = @ + 1]
    /\ cur_time' = FloatAdd(cur_time, model_timestep)
    /\ nsub' = nsub + 1
    /\ UNCHANGED <<control_freq, horizon, ignore_done, mjpy_model,
                   sim_state_initial, model_timestep, control_timestep, t, done, pc,
                   end_time, entry_time, ret, t0>>

\* loop exit: _post_action and return; term is the outcome of _check_terminated
StepReturn(term) ==
    /\ pc = "loop"
    /\ ~LoopCond(cur_time, end_time)
    /\ done' = PostActionDone(term, t, horizon, ignore_done)
    /\ ret' = Result("step", ret.arg, "none", done', term)
    /\ pc' = "idle"
    /\ end_time' = 0
    /\ nsub' = 0
    /\ entry_time' = 0
    /\ UNCHANGED <<control_freq, horizon, ignore_done, mjpy_model,
                   sim, sim_state_initial, cur_time, model_timestep, control_timestep,
                   t, t0>>

\* state after MujocoEnv(control_freq, horizon, ignore_done) returned:
\* the constructor ran _reset_internal without raising
EnvInit ==
    /\ control_freq \in Freqs
    /\ horizon \in Horizons
    /\ ignore_done \in BOOLEAN
    /\ model_timestep \in Timesteps
    /\ mjpy_model = [src |-> "load_model", timestep |-> model_timestep]
    /\ sim = MjSim(mjpy_model)
    /\ sim_state_initial = get_state(sim)
    /\ cur_time = 0
    /\ control_timestep = ControlTimestep(control_freq)
    /\ t = 0
    /\ done = FALSE
    /\ pc = "idle"
    /\ end_time = 0
    /\ nsub = 0
    /\ entry_time = 0
    /\ ret = Result("init", 0, "none", FALSE, FALSE)
    /\ t0 = 0

(* ============ mujoco_object.py: generated primitive objects ============ *)

(* lengths are in hundredths (0.05 is 5), colour components in 1/ColourOne,  *)
(* friction coefficients in ten-thousandths (0.005 is 50, 0.0001 is 1)       *)
ColourOne == 2
DefaultSize == 5
DefaultDensity == 1000
DefaultFriction == 10000
TorsionalFriction == 50
RollingFriction == 1
DefaultSizeMax == 7
DefaultSizeMin == 3

DEFAULT_DENSITY_RANGE == <<200, 500, 1000, 3000, 5000>>
DEFAULT_FRICTION_RANGE == <<2500, 5000, 10000, 15000, 20000>>

VARIABLES
    call,     \* the last constructor call: class and arguments
    obj,      \* the object it built, or the exception it raised
    scene     \* two primitives placed on the table: rotation of each, offset of b from a

objvars == <<call, obj>>

\* Python values of the optional arguments
None == [tag |-> "None", val |-> <<>>]
Str(x) == [tag |-> "str", val |-> <<>>, str |-> x]
Scalar(x) == [tag |-> "scalar", val |-> <<x>>]
Arr(q) == [tag |-> "seq", val |-> q]
IsNone(x) == x.tag = "None"

Range(q) == {q[i] : i \in 1..Len(q)}

\* np.random.uniform(lo, hi): a value of [lo, hi) (of (hi, lo] when hi < lo),
\* on the grid of the model
Uniform_closed_above(lo, hi) == lo..(hi + 1)

Uniform(lo, hi) ==
    IF lo = hi THEN {lo}
    ELSE IF lo < hi THEN lo..(hi - 1)
    ELSE (hi + 1)..lo

\* [np.random.uniform(lo[i], hi[i]) for i in range(n)]; IndexError when lo or hi is shorter
UniformVector(lo, hi, n) ==
    IF Len(lo) < n \/ Len(hi) < n THEN {}
    ELSE {q \in [1..n -> UNION {Uniform(lo[i], hi[i]) : i \in 1..n}] :
             \A i \in 1..n : q[i] \in Uniform(lo[i], hi[i])}

Raised(cls, e) ==
    [cls |-> cls, raised |-> e, size |-> <<>>, rgba |-> <<>>, density |-> 0, friction |-> <<>>]

\* __init__: the rgba branch; the set of possible values, {} when the assertion fails
ResolveRgba(rgba) ==
    IF IsNone(rgba) THEN {<<ColourOne, 0, 0, ColourOne>>}
    ELSE IF rgba.tag = "str" /\ rgba.str = "random"
    THEN {<<r, g, b, ColourOne>> : r \in Uniform(0, ColourOne), g \in Uniform(0, ColourOne),
                                   b \in Uniform(0, ColourOne)}
    ELSE IF Len(rgba.val) = 4 THEN {rgba.val} ELSE {}

\* __init__: the density branch; {} when np.random.choice is given an empty range
ResolveDensity_range_first(density, density_range) ==
    IF ~IsNone(density_range) THEN Range(density_range.val)
    ELSE IF IsNone(density) THEN {DefaultDensity} ELSE {density.val[1]}

ResolveDensity(density, density_range) ==
    IF IsNone(density)
    THEN IF ~IsNone(density_range) THEN Range(density_range.val) ELSE {DefaultDensity}
    ELSE {density.val[1]}

\* __init__: the friction branch; "assert" when the length assertion fails,
\* "choice" when np.random.choice is given an empty range
ResolveFriction(friction, friction_range) ==
    IF IsNone(friction)
    THEN IF ~IsNone(friction_range)
         THEN {<<f, TorsionalFriction, RollingFriction>> : f \in Range(friction_range.val)}
         ELSE {<<DefaultFriction, TorsionalFriction, RollingFriction>>}
    ELSE IF friction.tag = "seq"
    THEN IF Len(friction.val) = 3 THEN {friction.val} ELSE {}
    ELSE {<<friction.val[1], TorsionalFriction, RollingFriction>>}

\* sanity_check of each class
SizeLen(cls) ==
    CASE cls = "BoxObject" -> 3
      [] cls = "CylinderObject" -> 2
      [] cls = "BallObject" -> 1
      [] cls = "CapsuleObject" -> 2

sanity_check(cls, size) ==
    cls = "MujocoGeneratedObject" \/ Len(size) = SizeLen(cls)

\* MujocoGeneratedObject.__init__ as run for class cls: the set of outcomes
MujocoGeneratedObject(cls, size, rgba, density, friction, density_range, friction_range) ==
    LET sz == IF IsNone(size) THEN <<DefaultSize, DefaultSize, DefaultSize>> ELSE size.val
    IN  IF ResolveRgba(rgba) = {} THEN {Raised(cls, "AssertionError")}
        ELSE IF ResolveDensity(density, density_range) = {} THEN {Raised(cls, "ValueError")}
        ELSE IF ResolveFriction(friction, friction_range) = {}
        THEN {Raised(cls, IF IsNone(friction) THEN "ValueError" ELSE "AssertionError")}
        ELSE IF ~sanity_check(cls, sz) THEN {Raised(cls, "AssertionError")}
        ELSE {[cls |-> cls, raised |-> "none", size |-> sz, rgba |-> c, density |-> d,
               friction |-> f] :
                 c \in ResolveRgba(rgba),
                 d \in ResolveDensity(density, density_range),
                 f \in ResolveFriction(friction, friction_range)}

DefaultVector(n, x) == [i \in 1..n |-> x]

\* RandomBoxObject / RandomCylinderObject / RandomBallObject .__init__ (n = 3, 2, 1)
RandomObject(cls, n, size_max, size_min, density_range, friction_range, rgba) ==
    LET smax == IF IsNone(size_max) THEN DefaultVector(n, DefaultSizeMax) ELSE size_max.val
        smin == IF IsNone(size_min) THEN DefaultVector(n, DefaultSizeMin) ELSE size_min.val
        dr == IF IsNone(density_range) THEN Arr(DEFAULT_DENSITY_RANGE) ELSE density_range
        fr == IF IsNone(friction_range) THEN Arr(DEFAULT_FRICTION_RANGE) ELSE friction_range
    IN  IF UniformVector(smin, smax, n) = {} THEN {Raised(cls, "IndexError")}
        ELSE UNION {MujocoGeneratedObject(cls, Arr(sz), rgba, None, None, dr, fr) :
                        sz \in UniformVector(smin, smax, n)}

\* RandomCapsuleObject.__init__: density_range and friction_range are not
\* parameters; they are assigned in the body, hence locals, and are read first
Unbound == [tag |-> "unbound", val |-> <<>>]

RandomCapsuleObject(size_max, size_min, rgba) ==
    LET smax == IF IsNone(size_max) THEN DefaultVector(2, DefaultSizeMax) ELSE size_max.val
        smin == IF IsNone(size_min) THEN DefaultVector(2, DefaultSizeMin) ELSE size_min.val
        density_range == Unbound
        friction_range == Unbound
    IN  IF UniformVector(smin, smax, 2) = {} THEN {Raised("CapsuleObject", "IndexError")}
        ELSE IF density_range.tag = "unbound"
        THEN {Raised("CapsuleObject", "UnboundLocalError")}
        ELSE IF friction_range.tag = "unbound"
        THEN {Raised("CapsuleObject", "UnboundLocalError")}
        ELSE UNION {MujocoGeneratedObject("CapsuleObject", Arr(sz), rgba, None, None,
                                          density_range, friction_range) :
                        sz \in UniformVector(smin, smax, 2)}

(* ---- arguments the constructors are called with ---- *)
SomeDensityRanges == {None, Arr(<<50, 100>>), Arr(<<>>)}
SomeFrictionRanges == {None, Arr(<<3000, 7000>>)}
SomeRgbas == {None, Str("random"), Arr(<<0, ColourOne, 0, 1>>), Arr(<<0, 0, ColourOne>>)}
SomeDensities == {None, Scalar(70)}
SomeFrictions == {None, Scalar(4000), Arr(<<6000, 40, 2>>), Arr(<<6000, 40>>)}
SomeSizes == {None, Arr(<<1, 2, 3>>), Arr(<<4>>)}
SizeBounds(n) ==
    {<<None, None>>,
     <<Arr(DefaultVector(n, 4)), Arr(DefaultVector(n, 4))>>,
     <<Arr([i \in 1..n |-> i]), Arr([i \in 1..n |-> i + 1])>>,
     <<Arr(DefaultVector(n, 5)), Arr(DefaultVector(n, 4))>>}

NoCall == [cls |-> "none"]
NoObject == Raised("none", "none")

\* the constructor calls of the model
GeneratedCalls ==
    [cls : {"MujocoGeneratedObject"}, size : SomeSizes, rgba : SomeRgbas,
     density : SomeDensities, friction : SomeFrictions,
     density_range : SomeDensityRanges, friction_range : SomeFrictionRanges]

RandomCalls(name, n) ==
    {[cls |-> name, size_min |-> sb[1], size_max |-> sb[2], density_range |-> dr,
      friction_range |-> fr, rgba |-> c] :
        sb \in SizeBounds(n), dr \in SomeDensityRanges, fr \in SomeFrictionRanges,
        c \in {Str("random"), None}}

CapsuleCalls ==
    {[cls |-> "RandomCapsuleObject", size_min |-> sb[1], size_max |-> sb[2], rgba |-> c] :
        sb \in SizeBounds(2), c \in {Str("random"), None}}

Calls ==
    GeneratedCalls \cup RandomCalls("RandomBoxObject", 3)
        \cup RandomCalls("RandomCylinderObject", 2) \cup RandomCalls("RandomBallObject", 1)
        \cup CapsuleCalls

\* MujocoGeneratedObject(size, rgba, density, friction, density_range, friction_range)
NewGenerated ==
    /\ call.cls = "MujocoGeneratedObject" /\ obj = NoObject
    /\ obj' \in MujocoGeneratedObject("MujocoGeneratedObject", call.size, call.rgba,
                                      call.density, call.friction, call.density_range,
                                      call.friction_range)
    /\ UNCHANGED <<envvars, call, scene>>

NewRandom(name, cls, n) ==
    /\ obj = NoObject
    /\ obj' \in RandomObject(cls, n, call.size_max, call.size_min, call.density_range,
                             call.friction_range, call.rgba)
    /\ UNCHANGED <<envvars, call, scene>>

\* RandomBoxObject(size_max, size_min, density_range, friction_range, rgba)
NewRandomBox ==
    /\ call.cls = "RandomBoxObject"
    /\ NewRandom("RandomBoxObject", "BoxObject", 3)

\* RandomCylinderObject(size_max, size_min, density_range, friction_range, rgba)
NewRandomCylinder ==
    /\ call.cls = "RandomCylinderObject"
    /\ NewRandom("RandomCylinderObject", "CylinderObject", 2)

\* RandomBallObject(size_max, size_min, density_range, friction_range, rgba)
NewRandomBall ==
    /\ call.cls = "RandomBallObject"
    /\ NewRandom("RandomBallObject", "BallObject", 1)

\* RandomCapsuleObject(size_max, size_min, rgba)
NewRandomCapsule ==
    /\ call.cls = "RandomCapsuleObject" /\ obj = NoObject
    /\ obj' \in RandomCapsuleObject(call.size_max, call.size_min, call.rgba)
    /\ UNCHANGED <<envvars, call, scene>>

(* ---- primitives placed on a table: get_horizontal_radius ---- *)

\* horizontal coordinates are in 1/RotScale of a length unit; a rotation about
\* the vertical axis is <<c, s>> with cos = c/RotScale, sin = s/RotScale
RotScale == 5
MaxHalfSize == 2
MaxOffset == 4
Rotations ==
    {r \in (0..RotScale) \X (0..RotScale) : r[1] * r[1] + r[2] * r[2] = RotScale * RotScale}

Abs(x) == IF x < 0 THEN -x ELSE x

\* the square of get_horizontal_radius(): BoxObject returns the 2-norm of
\* size[0:2], CylinderObject, BallObject and CapsuleObject return size[0]
get_horizontal_radius_sq_longer_side(o) ==
    IF o.cls = "BoxObject" THEN Max(o.size[1], o.size[2]) * Max(o.size[1], o.size[2])
    ELSE o.size[1] * o.size[1]

get_horizontal_radius_sq(o) ==
    IF o.cls = "BoxObject" THEN o.size[1] * o.size[1] + o.size[2] * o.size[2]
    ELSE o.size[1] * o.size[1]

\* BoxObject(size) / CylinderObject(size) / BallObject(size) / CapsuleObject(size)
Primitive(cls, size) == MujocoGeneratedObject(cls, Arr(size), None, None, None, None, None)

PrimitiveSizes(cls) ==
    IF cls = "BoxObject" THEN {<<x, y, 1>> : x \in 1..MaxHalfSize, y \in 1..MaxHalfSize}
    ELSE IF cls = "BallObject" THEN {<<r>> : r \in 1..MaxHalfSize}
    ELSE {<<r, 1>> : r \in 1..MaxHalfSize}

\* construct a primitive and put it down: the first at the origin, the second
\* at horizontal offset d from it, each turned about the vertical axis
Place(cls) ==
    \E size \in PrimitiveSizes(cls) :
      \E rot \in (IF cls = "BoxObject" THEN Rotations ELSE {<<RotScale, 0>>}),
         o \in Primitive(cls, size) :
        /\ IF scene.a = NoObject
           THEN scene' = [scene EXCEPT !.a = o, !.rot_a = rot]
           ELSE \E dx \in 0..MaxOffset, dy \in 0..MaxOffset :
                   scene' = [scene EXCEPT !.b = o, !.rot_b = rot, !.d = <<dx, dy>>]
        /\ UNCHANGED <<envvars, objvars>>

PlaceBox ==
    /\ scene.b = NoObject
    /\ Place("BoxObject")

PlaceCylinder ==
    /\ scene.b = NoObject
    /\ Place("CylinderObject")

PlaceBall ==
    /\ scene.b = NoObject
    /\ Place("BallObject")

PlaceCapsule ==
    /\ scene.b = NoObject
    /\ Place("CapsuleObject")

NoScene == [a |-> NoObject, b |-> NoObject, rot_a |-> <<RotScale, 0>>, rot_b |-> <<RotScale, 0>>, d |-> <<0, 0>>]

vars == <<envvars, objvars, scene>>

\* one constructed environment, for the specifications that do not step it
EnvIdle ==
    /\ EnvInit
    /\ ~ignore_done
    /\ control_freq = 1 /\ horizon = 0 /\ model_timestep = 1

ObjIdle == call = NoCall /\ obj = NoObject


(* ---------------- specifications ---------------- *)

Init == EnvInit /\ ObjIdle /\ scene = NoScene

Next ==
    \/ \E a \in Actions : step(a) /\ UNCHANGED <<objvars, scene>>
    \/ SubStep /\ UNCHANGED <<objvars, scene>>
    \/ \E term \in BOOLEAN : StepReturn(term) /\ UNCHANGED <<objvars, scene>>
    \/ \E m \in Timesteps \cup BadTimesteps : reset(m) /\ UNCHANGED <<objvars, scene>>
    \/ \E m \in Timesteps \cup BadTimesteps :
          reset_from_xml_string(m) /\ UNCHANGED <<objvars, scene>>
    \/ \E f \in Freqs \cup BadFreqs : InitializeTime(f) /\ UNCHANGED <<objvars, scene>>

\* the environment life cycle
Spec == Init /\ [][Next]_vars

\* a constructor is about to be called with arguments drawn from Calls
ObjInit == EnvIdle /\ call \in Calls /\ obj = NoObject /\ scene = NoScene

ObjNext ==
    \/ NewGenerated
    \/ NewRandomBox
    \/ NewRandomCylinder
    \/ NewRandomBall
    \/ NewRandomCapsule

\* the constructors of the generated objects
ObjSpec == ObjInit /\ [][ObjNext]_vars

SceneInit == EnvIdle /\ ObjIdle /\ scene = NoScene

SceneNext ==
    \/ PlaceBox
    \/ PlaceCylinder
    \/ PlaceBall
    \/ PlaceCapsule

\* two primitives put on the table
SceneSpec == SceneInit /\ [][SceneNext]_vars

(* ======================= MujocoEnv: properties ======================= *)

Resets == {"reset", "reset_from_xml_string"}

\* the last call was a step and it returned normally
StepReturned == pc = "idle" /\ ret.op = "step" /\ ret.raised = "none"

\* the transition is a call of step (accepted or refused)
StepCalled == pc = "idle" /\ ret'.op = "step"

\* C1: after k successful steps since the time was last zeroed, the simulated
\* time is within one physics timestep of k control periods:
\* k*control_timestep <= cur_time < k*control_timestep + model_timestep,
\* whether or not model_timestep divides control_timestep.
C1_ControlRate ==
    StepReturned =>
        LET k == t - t0
        IN  /\ k * control_timestep <= cur_time
            /\ cur_time < k * control_timestep + model_timestep

\* C2: a step call in a terminated episode raises ValueError and leaves t,
\* cur_time, done, the controls and the number of executed physics sub-steps
\* as they were, so every further step call is refused as well.
C2_TerminatedStepRaises ==
    [][(StepCalled /\ done) =>
          /\ ret'.raised = "ValueError"
          /\ UNCHANGED <<t, cur_time, done, sim, pc>>]_vars

C2_Witness ==
    /\ done
    /\ ret.op = "step" /\ ret.raised = "ValueError"
    /\ ret.arg # sim.ctrl

\* C3: with ignore_done = True the episode never terminates: done is false in
\* every state, every step returns done = False and no step call ever raises
\* the terminated-episode ValueError, whatever the horizon and whatever
\* _check_terminated answers.
C3_IgnoreDoneNeverTerminates ==
    ignore_done =>
        /\ ~done
        /\ ~ret.done
        /\ ret.raised # "ValueError"

C3_Witness ==
    /\ ignore_done
    /\ StepReturned
    /\ ret.term
    /\ t > horizon

\* C4: with ignore_done = False a step that returns sets and returns done = TRUE
\* exactly when _check_terminated held or t >= horizon; t changes only by an
\* accepted step call (+1, only while not done) or by a reset (to 0); t never
\* exceeds max(horizon, 1); the max(horizon, 1)-th successful step terminates
\* the episode; and an episode in which step keeps being called without any
\* further reset is eventually terminated for good.
C4_StepSetsDone ==
    ~ignore_done =>
        /\ StepReturned => (done = (ret.term \/ t >= horizon) /\ ret.done = done)
        /\ t <= Max(horizon, 1)
        /\ (pc = "idle" /\ t >= Max(horizon, 1)) => done

C4_Counting ==
    (~ignore_done /\ t' # t) =>
        \/ t' = t + 1 /\ ~done /\ ret'.op = "step" /\ ret'.raised = "running"
        \/ t' = 0 /\ ret'.op \in Resets /\ ret'.raised = "none"

C4_KeepsStepping ==
    /\ []<><<StepCalled>>_vars
    /\ <>[][ret'.op \notin Resets]_vars

\* C4, all parts: the state invariant, the counting of accepted steps, and
\* termination of every episode that keeps being stepped.
C4_Termination ==
    /\ [](C4_StepSetsDone)
    /\ [][C4_Counting]_vars
    /\ (~ignore_done /\ C4_KeepsStepping) => <>[]done

C4_Witness ==
    /\ ~ignore_done
    /\ StepReturned
    /\ horizon = MaxHorizon
    /\ t = horizon
    /\ ~ret.term
    /\ done

\* the episode is fresh: nothing stepped, no time elapsed, not terminated, a
\* newly built simulation whose initial state is the recorded one
Fresh ==
    /\ t = 0 /\ cur_time = 0 /\ ~done
    /\ sim = MjSim(mjpy_model)
    /\ sim_state_initial = get_state(sim)
    /\ StepAccepted(done)

\* C5 as stated: after reset or reset_from_xml_string, called in any reachable
\* state, the episode is fresh and the call returned (the observation, for
\* reset), and reset built the simulation from the model it just reloaded.
C5_ResetStartsFreshEpisode ==
    (ret.op \in Resets) =>
        /\ ret.raised = "none"
        /\ Fresh
        /\ ret.op = "reset" => mjpy_model = [src |-> "load_model", timestep |-> ret.arg]

\* C5 amended: the above holds when the call returns; when initialize_time
\* rejects the new model (or the stored control_freq) the call raises XMLError
\* or SimulationError with the new simulation built and cur_time = 0, but t and
\* done as they were before the call.
C5_ResetState ==
    (ret.op \in Resets) =>
        /\ sim = MjSim(mjpy_model)
        /\ cur_time = 0
        /\ ret.raised \in {"none", "XMLError", "SimulationError"}
        /\ ret.raised = "none" <=> (mjpy_model.timestep > 0 /\ control_freq > 0)
        /\ ret.raised = "none" => Fresh
        /\ ret.op = "reset" => mjpy_model = [src |-> "load_model", timestep |-> ret.arg]

C5_ResetRaised ==
    (pc = "idle" /\ ret'.op \in Resets /\ ret'.raised # "none") => UNCHANGED <<t, done>>

\* C5 amended, both parts: the state after a reset call, and what a raising
\* reset call leaves alone.
C5_ResetReturned == [](C5_ResetState) /\ [][C5_ResetRaised]_vars

C5_Witness ==
    /\ ret.op = "reset_from_xml_string" /\ ret.raised = "none"
    /\ Fresh
    /\ sim.src = "xml"
    /\ sim.timestep = MaxTimestep

\* C6 as stated: initialize_time(f) on a model of timestep m raises XMLError if
\* m <= 0, else SimulationError if f <= 0; when it raises, control_freq and
\* control_timestep keep their values; when it returns, cur_time = 0 and
\* control_timestep = 1/f > 0.
C6_InitializeTimeRejects ==
    [][(pc = "idle" /\ ret'.op = "initialize_time") =>
          LET f == ret'.arg
              m == sim.timestep
          IN  /\ m <= 0 => ret'.raised = "XMLError"
              /\ (m > 0 /\ f <= 0) => ret'.raised = "SimulationError"
              /\ (m > 0 /\ f > 0) =>
                    /\ ret'.raised = "none"
                    /\ cur_time' = 0
                    /\ control_freq' = f
                    /\ control_timestep' = ControlTimestep(f)
                    /\ control_timestep' > 0
              /\ ret'.raised # "none" => UNCHANGED <<control_freq, control_timestep>>]_vars

\* the least integer n >= 1 with n * m >= ct, for ct >= 1 and m >= 1
LeastSubSteps(ct, m) == CHOOSE n \in 1..ct : n * m >= ct /\ (n - 1) * m < ct

\* a step call is accepted: t is incremented and the action is written to the
\* controls, and no physics sub-step has run, nothing has been evaluated
C11_Call ==
    (pc = "idle" /\ pc' = "loop") =>
        /\ t' = t + 1
        /\ sim'.ctrl = ret'.arg
        /\ sim'.nstep = sim.nstep
        /\ nsub' = 0
        /\ cur_time' = cur_time
        /\ done' = done
        /\ ret'.raised = "running"

\* a physics sub-step of a step that can return: the controls already hold
\* the action, it is one of the n sub-steps, and neither t nor done nor the
\* result of the call changes
C11_SubStep ==
    (pc = "loop" /\ pc' = "loop" /\ nsub' # nsub /\ model_timestep > 0) =>
        /\ sim.ctrl = ret.arg
        /\ sim' = [sim EXCEPT !.nstep = @ + 1]
        /\ nsub' = nsub + 1
        /\ nsub < LeastSubSteps(control_timestep, model_timestep)
        /\ t' = t /\ done' = done /\ ret' = ret

\* the step returns: exactly n sub-steps have run, cur_time is in
\* [entry + control_timestep, entry + control_timestep + model_timestep),
\* and done and the returned values are set now, with no further sub-step
C11_Return ==
    (pc = "loop" /\ pc' = "idle") =>
        /\ model_timestep > 0
        /\ nsub = LeastSubSteps(control_timestep, model_timestep)
        /\ cur_time >= entry_time + control_timestep
        /\ cur_time < entry_time + control_timestep + model_timestep
        /\ sim' = sim /\ cur_time' = cur_time /\ t' = t
        /\ ret'.raised = "none" /\ ret'.done = done'

\* C11: every successful step call follows a fixed order: t is incremented
\* and the action written to the controls before any physics sub-step; then
\* exactly n sub-steps run, n the least integer >= 1 with
\* n * model_timestep >= control_timestep, so that cur_time at exit is at
\* least cur_time at entry + control_timestep and less than that plus
\* model_timestep; reward and termination are evaluated after the last one.
C11_StepOrder == [][C11_Call /\ C11_SubStep /\ C11_Return]_vars

(* ================= generated objects: properties ================= *)

Constructed == obj.cls # "none"

ArgOr(x, default) == IF IsNone(x) THEN default ELSE x.val

\* C7: RandomCapsuleObject() with default arguments constructs a capsule with
\* both size components in [0.03, 0.07], a density of DEFAULT_DENSITY_RANGE
\* and a tangential friction of DEFAULT_FRICTION_RANGE.
C7_RandomCapsuleDefault ==
    (/\ Constructed
     /\ call.cls = "RandomCapsuleObject"
     /\ IsNone(call.size_min) /\ IsNone(call.size_max)
     /\ call.rgba = Str("random")) =>
        /\ obj.raised = "none"
        /\ Len(obj.size) = 2
        /\ \A i \in 1..2 : DefaultSizeMin <= obj.size[i] /\ obj.size[i] <= DefaultSizeMax
        /\ obj.density \in Range(DEFAULT_DENSITY_RANGE)
        /\ obj.friction[1] \in Range(DEFAULT_FRICTION_RANGE)

RandomClasses == {"RandomBoxObject", "RandomCylinderObject", "RandomBallObject"}

Components(name) ==
    CASE name = "RandomBoxObject" -> 3
      [] name = "RandomCylinderObject" -> 2
      [] name = "RandomBallObject" -> 1

\* C8: a random box, cylinder or ball called with size_min[i] <= size_max[i]
\* raises nothing but the ValueError of an empty range, and every object it
\* builds has 3, 2, 1 size components with size_min[i] <= size[i] <= size_max[i],
\* a density of the given (or default) density_range, friction
\* [f, 0.005, 0.0001] with f of the given (or default) friction_range, and, for
\* rgba = 'random', r, g, b in [0, 1] and alpha = 1.
C8_RandomWithinBounds ==
    (Constructed /\ call.cls \in RandomClasses) =>
        LET n == Components(call.cls)
            smin == ArgOr(call.size_min, DefaultVector(n, DefaultSizeMin))
            smax == ArgOr(call.size_max, DefaultVector(n, DefaultSizeMax))
            dr == ArgOr(call.density_range, DEFAULT_DENSITY_RANGE)
            fr == ArgOr(call.friction_range, DEFAULT_FRICTION_RANGE)
        IN  (\A i \in 1..n : smin[i] <= smax[i]) =>
              /\ obj.raised = (IF dr = <<>> \/ fr = <<>> THEN "ValueError" ELSE "none")
              /\ obj.raised = "none" =>
                    /\ Len(obj.size) = n
                    /\ \A i \in 1..n : smin[i] <= obj.size[i] /\ obj.size[i] <= smax[i]
                    /\ obj.density \in Range(dr)
                    /\ Len(obj.friction) = 3
                    /\ obj.friction[1] \in Range(fr)
                    /\ obj.friction[2] = TorsionalFriction
                    /\ obj.friction[3] = RollingFriction
                    /\ call.rgba = Str("random") =>
                          /\ Len(obj.rgba) = 4
                          /\ \A i \in 1..3 : 0 <= obj.rgba[i] /\ obj.rgba[i] <= ColourOne
                          /\ obj.rgba[4] = ColourOne

C8_Witness ==
    /\ call.cls = "RandomBoxObject" /\ obj.raised = "none"
    /\ call.size_min = Arr(<<1, 2, 3>>) /\ call.size_max = Arr(<<2, 3, 4>>)
    /\ obj.size = <<1, 2, 3>>
    /\ call.density_range = Arr(<<50, 100>>) /\ obj.density = 100
    /\ IsNone(call.friction_range) /\ obj.friction[1] = 20000
    /\ call.rgba = Str("random") /\ obj.rgba[1] > 0

\* C10: MujocoGeneratedObject resolves its attributes by precedence: density is
\* the explicit one, else one of density_range, else 1000; friction is
\* [f, 0.005, 0.0001] for an explicit scalar f, the explicit sequence if it
\* has length 3 (AssertionError otherwise), else [c, 0.005, 0.0001] with c of
\* friction_range, else [1, 0.005, 0.0001] (the density is drawn first, so an
\* empty density_range raises its ValueError before the friction is looked
\* at); rgba is [1, 0, 0, 1] when omitted
\* and an explicit rgba must have length 4 (AssertionError otherwise); every
\* object built has 3 friction components and 4 colour components.
C10_AttributePrecedence ==
    (Constructed /\ call.cls = "MujocoGeneratedObject") =>
        /\ (call.rgba.tag = "seq" /\ Len(call.rgba.val) # 4) => obj.raised = "AssertionError"
        /\ (call.friction.tag = "seq" /\ Len(call.friction.val) # 3) =>
               \/ obj.raised = "AssertionError"
               \/ /\ obj.raised = "ValueError"
                  /\ IsNone(call.density) /\ call.density_range = Arr(<<>>)
        /\ obj.raised = "none" =>
            /\ Len(obj.friction) = 3
            /\ Len(obj.rgba) = 4
            /\ IF ~IsNone(call.density) THEN obj.density = call.density.val[1]
               ELSE IF ~IsNone(call.density_range)
               THEN obj.density \in Range(call.density_range.val)
               ELSE obj.density = DefaultDensity
            /\ IF call.friction.tag = "scalar"
               THEN obj.friction = <<call.friction.val[1], TorsionalFriction, RollingFriction>>
               ELSE IF call.friction.tag = "seq" THEN obj.friction = call.friction.val
               ELSE /\ obj.friction[2] = TorsionalFriction
                    /\ obj.friction[3] = RollingFriction
                    /\ IF ~IsNone(call.friction_range)
                       THEN obj.friction[1] \in Range(call.friction_range.val)
                       ELSE obj.friction[1] = DefaultFriction
            /\ IsNone(call.rgba) => obj.rgba = <<ColourOne, 0, 0, ColourOne>>
            /\ call.rgba.tag = "seq" => obj.rgba = call.rgba.val

C10_Witness ==
    /\ call.cls = "MujocoGeneratedObject" /\ obj.raised = "none"
    /\ call.density = Scalar(70) /\ call.density_range = Arr(<<50, 100>>)
    /\ obj.density = 70
    /\ call.friction = Scalar(4000) /\ ~IsNone(call.friction_range)
    /\ obj.friction = <<4000, TorsionalFriction, RollingFriction>>
    /\ IsNone(call.rgba)

(* ================= placed primitives: properties ================= *)

\* the points of the table, in 1/RotScale of a length unit
Reach == (3 * RotScale * MaxHalfSize) \div 2
Grid == (-Reach..Reach) \X (-Reach..Reach)

\* p lies in the horizontal footprint of o, centred at the origin and turned by rot:
\* a rectangle of half-sizes size[0], size[1] for a box, a disc of radius size[0]
\* for an upright cylinder, a ball and an upright capsule
InFootprint(o, rot, p) ==
    IF o.cls = "BoxObject"
    THEN /\ Abs(rot[1] * p[1] + rot[2] * p[2]) <= RotScale * RotScale * o.size[1]
         /\ Abs(rot[1] * p[2] - rot[2] * p[1]) <= RotScale * RotScale * o.size[2]
    ELSE p[1] * p[1] + p[2] * p[2] <= RotScale * RotScale * o.size[1] * o.size[1]

\* every point of the footprint is within get_horizontal_radius() of the centre
Bounded(o, rot) ==
    \A p \in Grid :
        InFootprint(o, rot, p) =>
            p[1] * p[1] + p[2] * p[2] <= RotScale * RotScale * get_horizontal_radius_sq(o)

\* a.get_horizontal_radius() + b.get_horizontal_radius() < d, for the squares
\* ra2, rb2, d2 of the three lengths
RadiiBelowDistance(ra2, rb2, d2) ==
    /\ d2 - ra2 - rb2 > 0
    /\ 4 * ra2 * rb2 < (d2 - ra2 - rb2) * (d2 - ra2 - rb2)

\* the footprints of a and b share a point of the table
Overlap ==
    \E p \in Grid :
        /\ InFootprint(scene.a, scene.rot_a, p)
        /\ InFootprint(scene.b, scene.rot_b,
                       <<p[1] - RotScale * scene.d[1], p[2] - RotScale * scene.d[2]>>)

\* C9: get_horizontal_radius is sqrt(sx^2 + sy^2) for a box and size[0] for a
\* cylinder, a ball and a capsule; every point of the upright primitive, turned
\* by any angle about the vertical axis, is within that horizontal distance of
\* its centre; and two primitives whose radii sum to less than the horizontal
\* distance of their centres share no point.
C9_HorizontalRadius ==
    /\ (scene.a # NoObject /\ scene.b = NoObject) =>
          /\ Bounded(scene.a, scene.rot_a)
          /\ get_horizontal_radius_sq(scene.a) =
                (IF scene.a.cls = "BoxObject"
                 THEN scene.a.size[1] * scene.a.size[1] + scene.a.size[2] * scene.a.size[2]
                 ELSE scene.a.size[1] * scene.a.size[1])
    /\ (/\ scene.b # NoObject
        /\ RadiiBelowDistance(get_horizontal_radius_sq(scene.a),
                              get_horizontal_radius_sq(scene.b),
                              scene.d[1] * scene.d[1] + scene.d[2] * scene.d[2]))
          => ~Overlap

C9_Witness ==
    /\ scene.a.cls = "BoxObject" /\ scene.a.size = <<2, 1, 1>> /\ scene.rot_a = <<4, 3>>
    /\ scene.b.cls = "CapsuleObject" /\ scene.b.size = <<1, 1>>
    /\ scene.d = <<3, 2>>
    /\ RadiiBelowDistance(get_horizontal_radius_sq(scene.a), get_horizontal_radius_sq(scene.b),
                          scene.d[1] * scene.d[1] + scene.d[2] * scene.d[2])
    /\ ~Overlap

====
